---------------------------- MODULE Spec2Model ----------------------------
(***************************************************************************)
(* The order-statistics red-black tree of RBTree.h as a state machine.     *)
(*                                                                         *)
(* The heap is a function from node addresses to Node_ records; a tree     *)
(* object is its head_ pointer.  Every private routine of the class is an  *)
(* operator from a heap to a heap (loops are recursive operators), and     *)
(* every public member function is one action.  Addresses carry no         *)
(* meaning of their own, so after each public operation the heap is        *)
(* renumbered into a canonical form (Normalize).                           *)
(***************************************************************************)
EXTENDS Integers, Sequences, FiniteSets, TLC

\* Bounds of the model: the value-nodes alive at any time, and the values stored.
MaxNodes == 5
\* The same bound for trees of the derived structure that keeps subtree sums.
MaxSumNodes == 3
Values == {1, 2}
\* The tree objects of the host program, in a fixed order.
TreeSeq == <<1, 2>>
Trees == {TreeSeq[i] : i \in 1..Len(TreeSeq)}

\* nullptr
NULL == 0
\* The value slot of a Head (a Node_ without value).
NoValue == 0

VARIABLES
    heap,    \* address -> Node_ record (the allocated nodes)
    head,    \* tree object -> its head_ pointer (NULL: the object is not constructed)
    model,   \* tree object -> the reference list on which the same operations ran
    last,    \* the call the client has just made: its arguments and what the
             \* trees held before it ("none" once the client has moved on)
    derived  \* whether the trees are of a derived class that overrides Pull_

vars == <<heap, head, model, last, derived>>

-----------------------------------------------------------------------------
(* Node_ / NodeVal_ constructors *)

\* Node_ that is constructed black
NodeBlack_(val) ==
    [left |-> NULL, right |-> NULL, parent |-> NULL, size |-> 1,
     black_height |-> 0, black |-> TRUE, value |-> val, sum |-> val]

Node_(val) ==
    [left |-> NULL, right |-> NULL, parent |-> NULL, size |-> 1,
     black_height |-> 0, black |-> FALSE, value |-> val, sum |-> val]

\* NodeVal_(Args&&... args) with Args = {NodeVal_&, Node_*&}: what
\* new(ptr) NodeType_(*x, p) selects for the non-const *x of GenNode_ (it
\* binds without the const that NodeVal_(const NodeVal_&, Node_*) adds), so
\* the base is Node_() and the value is T(x, p), a T that takes x's value
NodeValArgs_(x, p) ==
    [left |-> NULL, right |-> NULL, parent |-> NULL, size |-> 1,
     black_height |-> 0, black |-> FALSE, value |-> x.value, sum |-> x.sum]

\* malloc: an address not in use
Malloc(h) == CHOOSE a \in 1..(Cardinality(DOMAIN h) + 1) : a \notin DOMAIN h

\* the addresses in use: a freed address keeps only the count of its frees
Allocated(h) == {a \in DOMAIN h : "frees" \notin DOMAIN h[a]}

\* free: the storage is gone, any later read of it fails
Free(h, nd) ==
    IF nd \in Allocated(h) THEN [h EXCEPT ![nd] = [frees |-> 1]]
    ELSE IF nd \in DOMAIN h THEN [h EXCEPT ![nd] = [frees |-> h[nd].frees + 1]]
    ELSE h @@ (nd :> [frees |-> 1])

-----------------------------------------------------------------------------
(* Navigation primitives *)

RECURSIVE First_(_, _)
First_(h, nd) == IF h[nd].left # NULL THEN First_(h, h[nd].left) ELSE nd

RECURSIVE Last_(_, _)
Last_(h, nd) == IF h[nd].right # NULL THEN Last_(h, h[nd].right) ELSE nd

ConnectLeft_(h, p, ch) ==
    IF ch # NULL THEN [h EXCEPT ![p].left = ch, ![ch].parent = p]
    ELSE [h EXCEPT ![p].left = ch]

ConnectLeftNoCheck_(h, p, ch) == [h EXCEPT ![p].left = ch, ![ch].parent = p]

ConnectRight_(h, p, ch) ==
    IF ch # NULL THEN [h EXCEPT ![p].right = ch, ![ch].parent = p]
    ELSE [h EXCEPT ![p].right = ch]

ConnectRightNoCheck_(h, p, ch) == [h EXCEPT ![p].right = ch, ![ch].parent = p]

ConnectParent_(h, orig, n) ==
    LET p == h[orig].parent
        h1 == [h EXCEPT ![n].parent = p]
    IN  IF p = NULL THEN h1
        ELSE IF h1[p].left = orig THEN [h1 EXCEPT ![p].left = n]
        ELSE [h1 EXCEPT ![p].right = n]

ConnectParentNoCheck_(h, orig, n) ==
    LET p == h[orig].parent
        h1 == [h EXCEPT ![n].parent = p]
    IN  IF h1[p].left = orig THEN [h1 EXCEPT ![p].left = n]
        ELSE [h1 EXCEPT ![p].right = n]

Size_(h, nd) == IF nd # NULL THEN h[nd].size ELSE 0

\* the inner loop of Next_ and Advance_: climb while nd is a right child
RECURSIVE ClimbRight_(_, _)
ClimbRight_(h, nd) ==
    IF h[nd].parent # NULL /\ h[h[nd].parent].right = nd
    THEN ClimbRight_(h, h[nd].parent) ELSE nd

\* the inner loop of Prev_ and Advance_: climb while nd is a left child
RECURSIVE ClimbLeft_(_, _)
ClimbLeft_(h, nd) ==
    IF h[nd].parent # NULL /\ h[h[nd].parent].left = nd
    THEN ClimbLeft_(h, h[nd].parent) ELSE nd

Next_(h, nd) ==
    IF h[nd].right # NULL THEN First_(h, h[nd].right)
    ELSE h[ClimbRight_(h, nd)].parent

Prev_(h, nd) ==
    IF h[nd].left # NULL THEN Last_(h, h[nd].left)
    ELSE h[ClimbLeft_(h, nd)].parent

RECURSIVE Select_(_, _, _)
Select_(h, nd, x) ==
    IF Size_(h, h[nd].left) = x THEN nd
    ELSE IF Size_(h, h[nd].left) > x THEN Select_(h, h[nd].left, x)
    ELSE Select_(h, h[nd].right, x - (Size_(h, h[nd].left) + 1))

RECURSIVE AdvanceBack_(_, _, _)
AdvanceBack_(h, nd, g) ==
    IF Size_(h, h[nd].left) < g
    THEN LET g1 == g - (Size_(h, h[nd].left) + 1)
             nd1 == h[ClimbLeft_(h, nd)].parent
         IN  IF g1 = 0 THEN nd1 ELSE AdvanceBack_(h, nd1, g1)
    ELSE Select_(h, h[nd].left, Size_(h, h[nd].left) - g)

RECURSIVE AdvanceForw_(_, _, _)
AdvanceForw_(h, nd, g) ==
    IF Size_(h, h[nd].right) < g
    THEN LET g1 == g - (Size_(h, h[nd].right) + 1)
             nd1 == h[ClimbRight_(h, nd)].parent
         IN  IF g1 = 0 THEN nd1 ELSE AdvanceForw_(h, nd1, g1)
    ELSE Select_(h, h[nd].right, g - 1)

Advance_(h, nd, x) ==
    IF x = 0 THEN nd
    ELSE IF x < 0 THEN AdvanceBack_(h, nd, 0 - x)
    ELSE AdvanceForw_(h, nd, x)

RECURSIVE OrderLoop_(_, _, _)
OrderLoop_(h, nd, ans) ==
    IF h[nd].parent = NULL THEN ans
    ELSE LET p == h[nd].parent
         IN  OrderLoop_(h, p, IF h[p].right = nd
                              THEN ans + Size_(h, h[p].left) + 1 ELSE ans)

\* Order_ that does not count the left subtree of nd
OrderNoLeft_(h, nd) == OrderLoop_(h, nd, 0)

Order_(h, nd) == OrderLoop_(h, nd, Size_(h, h[nd].left))

Difference_(h, a, b) == Order_(h, a) - Order_(h, b)

\* Iterator_::operator<
Less_(h, a, b) == Difference_(h, a, b) < 0

-----------------------------------------------------------------------------
(* Size and colour maintenance *)

\* the aggregate a derived structure keeps with each value: the sum of the
\* values of the subtree
Sum_(h, nd) == IF nd # NULL THEN h[nd].sum ELSE 0

\* the override of a derived structure: the node's value with the aggregates
\* of its children
PullSum_(h, nd) ==
    [h EXCEPT ![nd].sum = h[nd].value + Sum_(h, h[nd].left) + Sum_(h, h[nd].right)]

\* the recompute hook, virtual; the base class leaves it empty
Pull_(h, nd) == IF derived THEN PullSum_(h, nd) ELSE h

PullSize_(h, nd) ==
    Pull_([h EXCEPT ![nd].size = Size_(h, h[nd].left) + Size_(h, h[nd].right) + 1], nd)

PullSizeNoCheck_(h, nd) ==
    Pull_([h EXCEPT ![nd].size = h[h[nd].left].size + h[h[nd].right].size + 1], nd)

\* returns the heap and the topmost node below head
RECURSIVE IncreaseSize_(_, _, _, _)
IncreaseSize_(h, nd, hd, sz) ==
    IF h[nd].parent = hd
    THEN [h |-> Pull_([h EXCEPT ![nd].size = @ + sz], nd), r |-> nd]
    ELSE IncreaseSize_(Pull_([h EXCEPT ![nd].size = @ + sz], nd), h[nd].parent, hd, sz)

RECURSIVE DecreaseSize_(_, _, _)
DecreaseSize_(h, nd, head_) ==
    IF nd = head_ THEN h
    ELSE DecreaseSize_(Pull_([h EXCEPT ![nd].size = @ - 1], nd), h[nd].parent, head_)

\* DecreaseSize_(nd->parent, head)
DecreaseSizeAbove_(h, nd, head_) == DecreaseSize_(h, h[nd].parent, head_)

PaintBlack_(h, nd) ==
    IF nd # NULL
    THEN [h EXCEPT ![nd].black_height = @ + (IF h[nd].black THEN 0 ELSE 1),
                   ![nd].black = TRUE]
    ELSE h

-----------------------------------------------------------------------------
(* Insertion engine *)

\* Case 4, first rotation: nd is the inner grandchild and is lifted above p
InsertInner_(h, nd, p, g) ==
    IF p = h[g].left
    THEN IF nd = h[p].right
         THEN PullSize_(ConnectLeftNoCheck_(ConnectRight_(h, p, h[nd].left), nd, p), p)
         ELSE h
    ELSE IF nd = h[p].left
         THEN PullSize_(ConnectRightNoCheck_(ConnectLeft_(h, p, h[nd].right), nd, p), p)
         ELSE h

\* Case 4: the node that p names after the first rotation's std::swap(nd, p)
InsertTop_(h, nd, p, g) ==
    IF p = h[g].left
    THEN (IF nd = h[p].right THEN nd ELSE p)
    ELSE (IF nd = h[p].left THEN nd ELSE p)

\* Case 4, second rotation: p takes the place of g, g becomes a child of p
InsertOuter_(h, p, g, pIsLeft) ==
    IF pIsLeft
    THEN ConnectRightNoCheck_(ConnectLeft_(ConnectParent_(h, g, p), g, h[p].right), p, g)
    ELSE ConnectLeftNoCheck_(ConnectRight_(ConnectParent_(h, g, p), g, h[p].left), p, g)

\* Case 4: sizes and colours of g and p after the rotations
InsertRecolor_(h, p, g) ==
    [PullSizeNoCheck_([PullSize_(h, g) EXCEPT ![g].black = FALSE,
                                              ![g].black_height = @ - 1], p)
       EXCEPT ![p].black = TRUE, ![p].black_height = @ + 1]

\* Case 4: the sizes above p
InsertFinish_(h, p, hd, sz) ==
    IF h[p].parent = hd THEN [h |-> h, r |-> p]
    ELSE IncreaseSize_(h, h[p].parent, hd, sz)

\* Case 4 of InsertRepair_: parent red, uncle black or absent (rotations)
InsertCase4_(h, nd, p, g, hd, sz) ==
    InsertFinish_(
        InsertRecolor_(
            InsertOuter_(InsertInner_(h, nd, p, g), InsertTop_(h, nd, p, g), g,
                         p = h[g].left),
            InsertTop_(h, nd, p, g), g),
        InsertTop_(h, nd, p, g), hd, sz)

\* InsertCase3_ with the parent left red
InsertCase3KeepRed_(h, p, g, u, sz) ==
    LET h1 == Pull_([h EXCEPT ![p].size = @ + sz], p)
        h2 == Pull_([h1 EXCEPT ![g].size = @ + sz, ![g].black = FALSE], g)
    IN  [h2 EXCEPT ![u].black = TRUE, ![u].black_height = @ + 1]

\* Case 3 of InsertRepair_: parent and uncle red (recolour, continue at g)
InsertCase3_(h, p, g, u, sz) ==
    LET h1 == Pull_([h EXCEPT ![p].size = @ + sz, ![p].black = TRUE,
                              ![p].black_height = @ + 1], p)
        h2 == Pull_([h1 EXCEPT ![g].size = @ + sz, ![g].black = FALSE], g)
    IN  [h2 EXCEPT ![u].black = TRUE, ![u].black_height = @ + 1]

RECURSIVE InsertRepairLoop_(_, _, _, _)

\* InsertRepairLoop_ whose Case 1 leaves the root as it is
InsertRepairLoopRedRoot_(h, nd, hd, sz) ==
    LET p == h[nd].parent
    IN  IF p = hd THEN [h |-> h, r |-> nd]
        ELSE IF h[p].black THEN IncreaseSize_(h, p, hd, sz)
        ELSE LET g == h[p].parent
                 u == IF h[g].left = p THEN h[g].right ELSE h[g].left
             IN  IF u = NULL \/ h[u].black
                 THEN InsertCase4_(h, nd, p, g, hd, sz)
                 ELSE InsertRepairLoop_(InsertCase3_(h, p, g, u, sz), g, hd, sz)

InsertRepairLoop_(h, nd, hd, sz) ==
    LET p == h[nd].parent
    IN  IF p = hd
        THEN [h |-> [h EXCEPT ![nd].black = TRUE, ![nd].black_height = @ + 1],
              r |-> nd]
        ELSE IF h[p].black THEN IncreaseSize_(h, p, hd, sz)
        ELSE LET g == h[p].parent
                 u == IF h[g].left = p THEN h[g].right ELSE h[g].left
             IN  IF u = NULL \/ h[u].black
                 THEN InsertCase4_(h, nd, p, g, hd, sz)
                 ELSE InsertRepairLoop_(InsertCase3_(h, p, g, u, sz), g, hd, sz)

\* returns the heap and the root of the repaired tree (the node below hd)
InsertRepair_(h, nd, hd, sz) == InsertRepairLoop_(Pull_(h, nd), nd, hd, sz)

\* InsertBefore_ that ignores the cursor and links b last
InsertBeforeAtEnd_(h, a, b, head_) ==
    LET h1 == IF h[head_].left = NULL
              THEN ConnectLeftNoCheck_(h, head_, b)
              ELSE ConnectRightNoCheck_(h, Last_(h, h[head_].left), b)
    IN  InsertRepair_(h1, b, head_, 1).h

\* b is a detached new node
InsertBefore_(h, a, b, head_) ==
    LET h1 == IF a # head_
              THEN IF h[a].left = NULL
                   THEN ConnectLeftNoCheck_(h, a, b)
                   ELSE ConnectRightNoCheck_(h, Last_(h, h[a].left), b)
              ELSE IF h[head_].left = NULL
                   THEN ConnectLeftNoCheck_(h, head_, b)
                   ELSE ConnectRightNoCheck_(h, Last_(h, h[head_].left), b)
    IN  InsertRepair_(h1, b, head_, 1).h

-----------------------------------------------------------------------------
(* Deletion engine *)

\* the rotation of Cases 2 and 6: s takes the place of p, p becomes a child of s
RemoveRotate_(h, p, s) ==
    IF h[p].left = s
    THEN ConnectRightNoCheck_(
           ConnectLeft_(ConnectParentNoCheck_(h, p, s), p, h[s].right), s, p)
    ELSE ConnectLeftNoCheck_(
           ConnectRight_(ConnectParentNoCheck_(h, p, s), p, h[s].left), s, p)

\* the double rotation of Case 5: sin takes the place of p, over s and p
RemoveDouble_(h, p, s, sin) ==
    IF h[p].left = s
    THEN ConnectLeftNoCheck_(
           ConnectRightNoCheck_(
             ConnectLeft_(
               ConnectRight_(ConnectParentNoCheck_(h, p, sin), s, h[sin].left),
               p, h[sin].right),
             sin, p),
           sin, s)
    ELSE ConnectRightNoCheck_(
           ConnectLeftNoCheck_(
             ConnectRight_(
               ConnectLeft_(ConnectParentNoCheck_(h, p, sin), s, h[sin].right),
               p, h[sin].left),
             sin, p),
           sin, s)

\* RemoveCase2_ without the p->size++, s->size++ that the later decrement undoes
RemoveCase2NoOvercount_(h, p, s) ==
    PullSize_(
      PullSize_(
        RemoveRotate_([h EXCEPT ![p].black = FALSE, ![p].black_height = @ - 1,
                                ![s].black = TRUE, ![s].black_height = @ + 1],
                      p, s),
        p),
      s)

\* Case 2 of RemoveRepair_: red sibling (rotate it above p)
RemoveCase2_(h, p, s) ==
    [PullSize_(
       PullSize_(
         RemoveRotate_([h EXCEPT ![p].black = FALSE, ![p].black_height = @ - 1,
                                 ![s].black = TRUE, ![s].black_height = @ + 1],
                       p, s),
         p),
       s)
       EXCEPT ![p].size = @ + 1, ![s].size = @ + 1]

\* Cases 4, 5 and 6 of RemoveRepair_: the sibling s is black
RemoveRest_(h, p, s, head_) ==
    LET sIsLeft == (h[p].left = s)
        sin == IF sIsLeft THEN h[s].right ELSE h[s].left
        sout == IF sIsLeft THEN h[s].left ELSE h[s].right
        pb == IF h[p].black THEN 1 ELSE 0
    IN  IF sout # NULL /\ ~h[sout].black
        THEN \* Case 6
             DecreaseSizeAbove_(
               PullSizeNoCheck_(
                 PullSize_(
                   RemoveRotate_(
                     [h EXCEPT ![sout].black = TRUE, ![sout].black_height = @ + 1,
                               ![s].black_height = @ + pb,
                               ![p].black_height = @ - pb,
                               ![s].black = h[p].black, ![p].black = TRUE],
                     p, s),
                   p),
                 s),
               s, head_)
        ELSE IF sin # NULL /\ ~h[sin].black
        THEN \* Case 5
             DecreaseSizeAbove_(
               PullSizeNoCheck_(
                 PullSize_(
                   PullSize_(
                     RemoveDouble_(
                       [h EXCEPT ![p].black_height = @ - pb,
                                 ![sin].black_height = @ + 1 + pb,
                                 ![sin].black = h[p].black, ![p].black = TRUE],
                       p, s, sin),
                     p),
                   s),
                 sin),
               sin, head_)
        ELSE \* Case 4
             DecreaseSize_([h EXCEPT ![s].black = FALSE, ![s].black_height = @ - 1,
                                     ![p].black = TRUE],
                           p, head_)

\* after Case 2: s = p->left or p->right, then the cases of a black sibling
RemoveAfterCase2_(h, p, sWasLeft, head_) ==
    RemoveRest_(h, p, IF sWasLeft THEN h[p].left ELSE h[p].right, head_)

RECURSIVE RemoveRepairLoop_(_, _, _, _)
RECURSIVE RemoveRepairNext_(_, _, _)

\* after Case 3: nd = p, p = nd->parent, Case 1 or the next round with nd's sibling
RemoveRepairNext_(h, nd, head_) ==
    IF h[nd].parent = head_ THEN h
    ELSE RemoveRepairLoop_(h, h[nd].parent,
                           IF h[h[nd].parent].left = nd
                           THEN h[h[nd].parent].right ELSE h[h[nd].parent].left,
                           head_)

RemoveRepairLoop_(h, p, s, head_) ==
    IF ~h[s].black
    THEN \* Case 2
         RemoveAfterCase2_(RemoveCase2_(h, p, s), p, h[p].left = s, head_)
    ELSE IF /\ h[p].black
            /\ (h[s].left = NULL \/ h[h[s].left].black)
            /\ (h[s].right = NULL \/ h[h[s].right].black)
    THEN \* Case 3
         RemoveRepairNext_(
           Pull_([h EXCEPT ![s].black = FALSE, ![s].black_height = @ - 1,
                           ![p].size = @ - 1, ![p].black_height = @ - 1], p),
           p, head_)
    ELSE RemoveRest_(h, p, s, head_)

RemoveRepair_(h, p, s, head_) ==
    IF p = head_ THEN h ELSE RemoveRepairLoop_(h, p, s, head_)

\* (a->parent->left == a ? a->parent->left : a->parent->right) = nullptr
Unlink_(h, a) ==
    IF h[h[a].parent].left = a
    THEN [h EXCEPT ![h[a].parent].left = NULL]
    ELSE [h EXCEPT ![h[a].parent].right = NULL]

\* Remove_ once a has at most one child
RemoveNode_(h, a, head_) ==
    LET ap == h[a].parent
        child == IF h[a].left # NULL THEN h[a].left ELSE h[a].right
    IN  IF ~h[a].black
        THEN DecreaseSize_(Unlink_(h, a), ap, head_)
        ELSE IF child # NULL
        THEN DecreaseSizeAbove_(
               ConnectParent_([h EXCEPT ![child].black = TRUE,
                                        ![child].black_height = @ + 1], a, child),
               child, head_)
        ELSE RemoveRepair_(Unlink_(h, a), ap,
                           IF h[ap].left = a THEN h[ap].right ELSE h[ap].left, head_)

\* the node that Remove_ unlinks: a, or its in-order predecessor
RemoveTarget_(h, a) ==
    IF h[a].left # NULL /\ h[a].right # NULL THEN Last_(h, h[a].left) ELSE a

\* Remove_ that unlinks the predecessor without the swap of the values
RemoveNoSwap_(h, a, head_) ==
    [h |-> RemoveNode_(h, RemoveTarget_(h, a), head_), r |-> RemoveTarget_(h, a)]

\* returns the heap and the node that was unlinked
Remove_(h, a, head_) ==
    [h |-> RemoveNode_(
             IF h[a].left # NULL /\ h[a].right # NULL
             THEN [h EXCEPT ![Last_(h, h[a].left)].value = h[a].value,
                            ![Last_(h, h[a].left)].sum = h[a].sum,
                            ![a].value = h[Last_(h, h[a].left)].value,
                            ![a].sum = h[Last_(h, h[a].left)].sum]
             ELSE h,
             RemoveTarget_(h, a), head_),
     r |-> RemoveTarget_(h, a)]

-----------------------------------------------------------------------------
(* Merge/split engine *)

\* the descent loops of Merge_ into the taller side
RECURSIVE MergeDescendLeft_(_, _, _)
MergeDescendLeft_(h, r, bh) ==
    IF ~h[r].black \/ bh # h[r].black_height
    THEN MergeDescendLeft_(h, h[r].left, bh) ELSE r

RECURSIVE MergeDescendRight_(_, _, _)
MergeDescendRight_(h, l, bh) ==
    IF ~h[l].black \/ h[l].black_height # bh
    THEN MergeDescendRight_(h, h[l].right, bh) ELSE l

\* MergeLeaf_ that never sets a black_height of 1
MergeLeafNoHeight_(h, m, blk) ==
    [h EXCEPT ![m].left = NULL, ![m].right = NULL, ![m].size = 1,
              ![m].black = blk, ![m].black_height = 0]

\* m as a detached leaf of size 1 and the given colour
MergeLeaf_(h, m, blk) ==
    [h EXCEPT ![m].left = NULL, ![m].right = NULL, ![m].size = 1,
              ![m].black = blk, ![m].black_height = IF blk THEN 1 ELSE 0]

\* m linked as a red node over l and r in place of the node `at' of the
\* taller side, whose root is ret
MergeLink_(h, l, m, r, at, ret) ==
    [PullSizeNoCheck_(
       ConnectRightNoCheck_(
         ConnectLeftNoCheck_(ConnectParentNoCheck_(h, at, m), m, l), m, r), m)
       EXCEPT ![m].black = FALSE, ![m].black_height = h[l].black_height,
              ![ret].parent = NULL]

\* returns the heap and the root of the joined tree
Merge_(h, l, m, r) ==
    IF l = NULL
    THEN IF r = NULL THEN [h |-> MergeLeaf_(h, m, TRUE), r |-> m]
         ELSE InsertRepair_(
                [ConnectLeftNoCheck_(MergeLeaf_(h, m, FALSE), First_(h, r), m)
                   EXCEPT ![r].parent = NULL],
                m, NULL, 1)
    ELSE IF r = NULL
    THEN InsertRepair_(
           [ConnectRightNoCheck_(MergeLeaf_(h, m, FALSE), Last_(h, l), m)
              EXCEPT ![l].parent = NULL],
           m, NULL, 1)
    ELSE IF h[l].black_height = h[r].black_height
    THEN [h |-> [PullSizeNoCheck_(
                   ConnectRightNoCheck_(ConnectLeftNoCheck_(h, m, l), m, r), m)
                   EXCEPT ![m].black = TRUE,
                          ![m].black_height = h[l].black_height + 1],
          r |-> m]
    ELSE IF h[l].black_height < h[r].black_height
    THEN InsertRepair_(
           MergeLink_(h, l, m, MergeDescendLeft_(h, r, h[l].black_height),
                      MergeDescendLeft_(h, r, h[l].black_height), r),
           m, NULL, h[l].size + 1)
    ELSE InsertRepair_(
           MergeLink_(h, MergeDescendRight_(h, l, h[r].black_height), m, r,
                      MergeDescendRight_(h, l, h[r].black_height), l),
           m, NULL, h[r].size + 1)

RECURSIVE SplitLoop_(_, _, _, _, _, _)
RECURSIVE SplitRight_(_, _, _, _, _)
RECURSIVE SplitLeft_(_, _, _, _, _)

\* right = Merge_(..), then the next round of the loop
SplitRight_(mr, nd, p, left, head_) == SplitLoop_(mr.h, nd, p, left, mr.r, head_)

\* left = Merge_(..), then the next round of the loop
SplitLeft_(mr, nd, p, right, head_) == SplitLoop_(mr.h, nd, p, mr.r, right, head_)

\* the ancestor loop of Split_
SplitLoop_(h, nd, p, left, right, head_) ==
    IF p = head_ THEN [h |-> h, left |-> left, right |-> right]
    ELSE IF h[p].left = nd
    THEN SplitRight_(Merge_(PaintBlack_(h, h[p].right), right, p, h[p].right),
                     p, h[p].parent, left, head_)
    ELSE SplitLeft_(Merge_(PaintBlack_(h, h[p].left), h[p].left, p, left),
                    p, h[p].parent, right, head_)

\* Split_ once the two subtrees of nd are painted black
SplitPainted_(h, nd, pivot, head_) ==
    IF pivot
    THEN SplitRight_(Merge_(h, NULL, nd, h[nd].right), nd, h[nd].parent,
                     h[nd].left, head_)
    ELSE SplitLoop_(h, nd, h[nd].parent, h[nd].left, h[nd].right, head_)

\* returns the heap and the roots of the two parts
Split_(h, nd, pivot, head_) ==
    SplitPainted_(PaintBlack_(PaintBlack_(h, h[nd].left), h[nd].right),
                  nd, pivot, head_)

-----------------------------------------------------------------------------
(* Partition search.  A predicate on values is a function Values -> BOOLEAN; *)
(* the predicate handed to the iterator form reads the value through the     *)
(* iterator it is given.                                                     *)

Preds == [Values -> BOOLEAN]

\* const_iterator::operator*
Deref(h, ptr_) == h[ptr_].value

RECURSIVE PartitionBoundLoop_(_, _, _, _)
PartitionBoundLoop_(h, now, lst, func) ==
    IF now = NULL THEN lst
    ELSE IF func[h[now].value]
    THEN PartitionBoundLoop_(h, h[now].right, lst, func)
    ELSE PartitionBoundLoop_(h, h[now].left, now, func)

\* PartitionBound_ whose fallback result is the root instead of the Head
PartitionBoundFromRoot_(h, head_, func) ==
    PartitionBoundLoop_(h, h[head_].left, h[head_].left, func)

PartitionBound_(h, head_, func) ==
    PartitionBoundLoop_(h, h[head_].left, head_, func)

RECURSIVE PartitionBoundIterLoop_(_, _, _, _)
PartitionBoundIterLoop_(h, now, lst, func) ==
    IF now = NULL THEN lst
    ELSE IF func[Deref(h, now)]
    THEN PartitionBoundIterLoop_(h, h[now].right, lst, func)
    ELSE PartitionBoundIterLoop_(h, h[now].left, now, func)

PartitionBoundIter_(h, head_, func) ==
    PartitionBoundIterLoop_(h, h[head_].left, head_, func)

-----------------------------------------------------------------------------
(* Storage *)

GenNode_(h, val) ==
    LET a == Malloc(h) IN [h |-> h @@ (a :> Node_(val)), r |-> a]

GenNodeCopy_(h, x, p) ==
    LET a == Malloc(h) IN [h |-> h @@ (a :> NodeValArgs_(h[x], p)), r |-> a]

FreeNode_(h, nd) == Free(h, nd)

RECURSIVE ClearTreeLoop_(_, _, _)
ClearTreeLoop_(h, now, nd) ==
    LET tmp == now
    IN  IF h[now].left # NULL
        THEN ClearTreeLoop_([h EXCEPT ![tmp].left = NULL], h[now].left, nd)
        ELSE IF h[now].right # NULL
        THEN ClearTreeLoop_([h EXCEPT ![tmp].right = NULL], h[now].right, nd)
        ELSE IF now = nd THEN h
        ELSE ClearTreeLoop_(FreeNode_(h, tmp), h[now].parent, nd)

ClearTree_(h, nd) == ClearTreeLoop_(h, nd, nd)

\* returns the heap and ok: ok is FALSE when the loop reads dest->left
\* through a null dest, which is undefined behaviour
RECURSIVE CopyTreeLoop_(_, _, _, _)
CopyTreeLoop_(h, dest, now, orig) ==
    IF dest = NULL THEN [h |-> h, ok |-> FALSE]
    ELSE IF h[dest].left = NULL /\ h[now].left # NULL
    THEN LET g == GenNodeCopy_(h, h[now].left, dest)
         IN  CopyTreeLoop_([g.h EXCEPT ![dest].left = g.r], g.r, h[now].left, orig)
    ELSE IF h[dest].right = NULL /\ h[now].right # NULL
    THEN LET g == GenNodeCopy_(h, h[now].right, dest)
         IN  CopyTreeLoop_([g.h EXCEPT ![dest].right = g.r], g.r, h[now].right, orig)
    ELSE IF now = orig THEN [h |-> h, ok |-> TRUE]
    ELSE CopyTreeLoop_(h, h[dest].parent, h[now].parent, orig)

CopyTree_(h, dest, orig) == CopyTreeLoop_(h, dest, orig, orig)

\* returns the heap and the new head_
Init_(h) ==
    LET a == Malloc(h) IN [h |-> h @@ (a :> Node_(NoValue)), r |-> a]

-----------------------------------------------------------------------------
(* Container surface: the public member functions.  A program state M is   *)
(* [heap, head]; t is the object the member function is called on.         *)

begin(M, t) == First_(M.heap, M.head[t])

end(M, t) == M.head[t]

empty(M, t) == M.heap[M.head[t]].left = NULL

size(M, t) == Size_(M.heap, M.heap[M.head[t]].left)

\* RBTree()
RBTree(M, t) ==
    LET i == Init_(M.heap)
    IN  [heap |-> i.h, head |-> [M.head EXCEPT ![t] = i.r]]

\* RBTree(const RBTree& tree)
RBTreeCopy(M, t, tree) ==
    LET i == Init_(M.heap)
        c == CopyTree_(i.h, i.r, M.head[tree])
    IN  [heap |-> c.h, head |-> [M.head EXCEPT ![t] = i.r], ok |-> c.ok]

\* operator=(const RBTree& tree)
CopyAssign(M, t, tree) ==
    LET c == CopyTree_(ClearTree_(M.heap, M.head[t]), M.head[t], M.head[tree])
    IN  [heap |-> c.h, head |-> M.head, ok |-> c.ok]

\* RBTreeMove that constructs the empty tree and forgets the std::swap
RBTreeMoveNoSwap(M, t, tree) ==
    LET i == Init_(M.heap)
    IN  [heap |-> i.h, head |-> [M.head EXCEPT ![t] = i.r]]

\* RBTree(RBTree&& tree)
RBTreeMove(M, t, tree) ==
    LET i == Init_(M.heap)
    IN  [heap |-> i.h,
         head |-> [M.head EXCEPT ![t] = M.head[tree], ![tree] = i.r]]

\* ~RBTree()
Destructor(M, t) ==
    [heap |-> Free(ClearTree_(M.heap, M.head[t]), M.head[t]),
     head |-> [M.head EXCEPT ![t] = NULL]]

\* operator=(RBTree&& tree)
MoveAssign(M, t, tree) ==
    [heap |-> M.heap,
     head |-> [M.head EXCEPT ![t] = M.head[tree], ![tree] = M.head[t]]]

swap(M, t, x) ==
    [heap |-> M.heap,
     head |-> [M.head EXCEPT ![t] = M.head[x], ![x] = M.head[t]]]

push_back(M, t, val) ==
    LET g == GenNode_(M.heap, val)
    IN  [M EXCEPT !.heap = InsertBefore_(g.h, M.head[t], g.r, M.head[t])]

push_front(M, t, val) ==
    LET g == GenNode_(M.heap, val)
    IN  [M EXCEPT !.heap = InsertBefore_(g.h, First_(g.h, M.head[t]), g.r, M.head[t])]

\* FreeNode_(Remove_(..)): rm is what Remove_ returned
FreeRemoved_(rm) == FreeNode_(rm.h, rm.r)

pop_back(M, t) ==
    [M EXCEPT !.heap =
        FreeRemoved_(Remove_(M.heap, Last_(M.heap, M.heap[M.head[t]].left), M.head[t]))]

pop_front(M, t) ==
    [M EXCEPT !.heap =
        FreeRemoved_(Remove_(M.heap, First_(M.heap, M.heap[M.head[t]].left), M.head[t]))]

insert(M, t, it, val) ==
    LET g == GenNode_(M.heap, val)
    IN  [M EXCEPT !.heap = InsertBefore_(g.h, it, g.r, M.head[t])]

erase(M, t, it) ==
    [M EXCEPT !.heap = FreeRemoved_(Remove_(M.heap, it, M.head[t]))]

\* clear that drops the root without freeing anything
clearLeak(M, t) == [M EXCEPT !.heap[M.head[t]].left = NULL]

clear(M, t) == [M EXCEPT !.heap = ClearTree_(M.heap, M.head[t])]

\* ConnectMerged_ that leaves the other tree's Head pointing at its old root
ConnectMergedKeep_(mr, head_, thead) == ConnectLeft_(mr.h, head_, mr.r)

\* ConnectLeft_(head_, Merge_(..)); tree.head_->left = nullptr: mr is what
\* Merge_ returned
ConnectMerged_(mr, head_, thead) ==
    [ConnectLeft_(mr.h, head_, mr.r) EXCEPT ![thead].left = NULL]

\* insert_merge that stores the joined root without linking its parent
insert_mergeNoParent(M, t, tree, val) ==
    LET g == GenNode_(M.heap, val)
        mr == Merge_(g.h, g.h[M.head[t]].left, g.r, g.h[M.head[tree]].left)
    IN  [M EXCEPT !.heap = [mr.h EXCEPT ![M.head[t]].left = mr.r,
                                        ![M.head[tree]].left = NULL]]

\* insert_merge that joins the other tree in front of this one
insert_mergeSwapped(M, t, tree, val) ==
    LET g == GenNode_(M.heap, val)
    IN  [M EXCEPT !.heap =
            ConnectMerged_(
              Merge_(g.h, g.h[M.head[tree]].left, g.r, g.h[M.head[t]].left),
              M.head[t], M.head[tree])]

insert_merge(M, t, tree, val) ==
    LET g == GenNode_(M.heap, val)
    IN  [M EXCEPT !.heap =
            ConnectMerged_(
              Merge_(g.h, g.h[M.head[t]].left, g.r, g.h[M.head[tree]].left),
              M.head[t], M.head[tree])]

\* MergePivot_ with the two trees on the wrong sides of the pivot
MergePivotSwapped_(pv, head_, thead) ==
    Merge_(pv.h, pv.h[thead].left, pv.r, pv.h[head_].left)

\* Merge_(head_->left, pivot, tree.head_->left): pv is what Remove_ returned
MergePivot_(pv, head_, thead) ==
    Merge_(pv.h, pv.h[head_].left, pv.r, pv.h[thead].left)

\* merge: the pivot comes off the smaller tree's side
PivotFromTree_(h, head_, thead) == h[h[thead].left].size < h[h[head_].left].size

\* merge that takes the pivot of this tree from its front instead of its back
mergeFrontPivot(M, t, tree) ==
    LET h == M.heap
        head_ == M.head[t]
        thead == M.head[tree]
    IN  IF empty(M, tree) THEN M
        ELSE IF empty(M, t) THEN swap(M, t, tree)
        ELSE [M EXCEPT !.heap =
                ConnectMerged_(
                  MergePivot_(
                    Remove_(h,
                            IF PivotFromTree_(h, head_, thead)
                            THEN First_(h, h[thead].left)
                            ELSE First_(h, h[head_].left),
                            IF PivotFromTree_(h, head_, thead) THEN thead ELSE head_),
                    head_, thead),
                  head_, thead)]

merge(M, t, tree) ==
    LET h == M.heap
        head_ == M.head[t]
        thead == M.head[tree]
    IN  IF empty(M, tree) THEN M
        ELSE IF empty(M, t) THEN swap(M, t, tree)
        ELSE [M EXCEPT !.heap =
                ConnectMerged_(
                  MergePivot_(
                    Remove_(h,
                            IF PivotFromTree_(h, head_, thead)
                            THEN First_(h, h[thead].left)
                            ELSE Last_(h, h[head_].left),
                            IF PivotFromTree_(h, head_, thead) THEN thead ELSE head_),
                    head_, thead),
                  head_, thead)]

\* ConnectLeft_(head_, l); ConnectLeft_(ret.head_, r): sp is what Split_ returned
ConnectParts_(h, sp, head_, rhead) ==
    ConnectLeft_(ConnectLeft_(h, head_, sp.left), rhead, sp.right)

\* FreeAndConnectParts_ that forgets FreeNode_(it.ptr_)
FreeAndConnectPartsLeak_(sp, it, head_, rhead) ==
    ConnectParts_(sp.h, sp, head_, rhead)

\* FreeNode_(it.ptr_), then the two parts are linked
FreeAndConnectParts_(sp, it, head_, rhead) ==
    ConnectParts_(FreeNode_(sp.h, it), sp, head_, rhead)

\* erase_and_split that hands the part after the cursor to this tree and the
\* part before it to the returned one
erase_and_splitSwapped(M, t, it, ret) ==
    LET M1 == RBTree(M, ret)
    IN  [M1 EXCEPT !.heap =
            FreeAndConnectParts_(Split_(M1.heap, it, FALSE, M1.head[t]),
                                 it, M1.head[ret], M1.head[t])]

\* the returned tree is constructed as object ret
erase_and_split(M, t, it, ret) ==
    LET M1 == RBTree(M, ret)
    IN  [M1 EXCEPT !.heap =
            FreeAndConnectParts_(Split_(M1.heap, it, FALSE, M1.head[t]),
                                 it, M1.head[t], M1.head[ret])]

\* the two parts are linked
KeepAndConnectParts_(sp, head_, rhead) == ConnectParts_(sp.h, sp, head_, rhead)

\* split that leaves the element at the cursor out of the returned tree
splitNoPivot(M, t, it, ret) ==
    IF it = end(M, t) THEN RBTree(M, ret)
    ELSE LET M1 == RBTree(M, ret)
         IN  [M1 EXCEPT !.heap =
                 KeepAndConnectParts_(Split_(M1.heap, it, FALSE, M1.head[t]),
                                      M1.head[t], M1.head[ret])]

\* the returned tree is constructed as object ret
split(M, t, it, ret) ==
    IF it = end(M, t) THEN RBTree(M, ret)
    ELSE LET M1 == RBTree(M, ret)
         IN  [M1 EXCEPT !.heap =
                 KeepAndConnectParts_(Split_(M1.heap, it, TRUE, M1.head[t]),
                                      M1.head[t], M1.head[ret])]

partition_bound(M, t, func) == PartitionBound_(M.heap, M.head[t], func)

iter_partition_bound(M, t, func) == PartitionBoundIter_(M.heap, M.head[t], func)

\* iterator arithmetic: begin() + x
Cursor(M, t, x) == Advance_(M.heap, begin(M, t), x)

-----------------------------------------------------------------------------
(* Canonical addresses.  Between public operations the heap is renumbered: *)
(* the Head of tree object t gets address t, the value-nodes follow in     *)
(* tree order and in-order position, then any node no tree reaches.        *)

\* a pointer to freed storage
Dangling == NULL - 1

RECURSIVE InOrderNodes(_, _, _)
InOrderNodes(h, nd, fuel) ==
    IF nd = NULL \/ nd \notin Allocated(h) \/ fuel = 0 THEN <<>>
    ELSE InOrderNodes(h, h[nd].left, fuel - 1) \o <<nd>>
         \o InOrderNodes(h, h[nd].right, fuel - 1)

RECURSIVE OwnedNodes(_, _)
OwnedNodes(M, i) ==
    IF i > Len(TreeSeq) THEN <<>>
    ELSE (IF M.head[TreeSeq[i]] = NULL THEN <<>>
          ELSE InOrderNodes(M.heap, M.heap[M.head[TreeSeq[i]]].left,
                            Cardinality(DOMAIN M.heap)))
         \o OwnedNodes(M, i + 1)

RECURSIVE SortedSeq(_)
SortedSeq(S) ==
    IF S = {} THEN <<>>
    ELSE LET m == CHOOSE x \in S : \A y \in S : x <= y
         IN  <<m>> \o SortedSeq(S \ {m})

Range(f) == {f[i] : i \in DOMAIN f}

Heads(M) == {M.head[t] : t \in Trees} \ {NULL}

\* the value-nodes in their canonical order: owned is OwnedNodes(M, 1)
NodeOrder(M, owned) ==
    owned \o SortedSeq(Allocated(M.heap) \ (Heads(M) \cup Range(owned)))

\* the canonical address of x
Remap(M, nodes, x) ==
    IF x = NULL THEN NULL
    ELSE IF x \in Heads(M) THEN CHOOSE t \in Trees : M.head[t] = x
    ELSE IF x \in Range(nodes)
    THEN Len(TreeSeq) + (CHOOSE i \in 1..Len(nodes) :
                            nodes[i] = x /\ \A j \in 1..(i - 1) : nodes[j] # x)
    ELSE Dangling

Renumber(M, nodes) ==
    [heap |-> [a \in {t \in Trees : M.head[t] # NULL}
                     \cup ((Len(TreeSeq) + 1)..(Len(TreeSeq) + Len(nodes))) |->
                 [M.heap[IF a <= Len(TreeSeq) THEN M.head[a]
                         ELSE nodes[a - Len(TreeSeq)]]
                    EXCEPT !.left = Remap(M, nodes, @),
                           !.right = Remap(M, nodes, @),
                           !.parent = Remap(M, nodes, @)]],
     head |-> [t \in Trees |-> IF M.head[t] = NULL THEN NULL ELSE t]]

Normalize(M) == Renumber(M, NodeOrder(M, OwnedNodes(M, 1)))

\* where each address of M went: its canonical address, Dangling once freed
AddressMap(M) ==
    [a \in DOMAIN M.heap |-> Remap(M, NodeOrder(M, OwnedNodes(M, 1)), a)]

\* how often each address was freed
Frees(M) == [a \in DOMAIN M.heap \ Allocated(M.heap) |-> M.heap[a].frees]

-----------------------------------------------------------------------------
(* Observation: the sequence a tree holds, read as a client reads it, from *)
(* begin() to end() with operator++.                                       *)

RECURSIVE Walk(_, _, _, _)
Walk(h, nd, head_, fuel) ==
    IF nd = head_ \/ nd \notin Allocated(h) \/ fuel = 0 THEN <<>>
    ELSE <<h[nd].value>> \o Walk(h, Next_(h, nd), head_, fuel - 1)

Contents(M, t) ==
    IF M.head[t] = NULL THEN <<>>
    ELSE Walk(M.heap, begin(M, t), end(M, t), Cardinality(DOMAIN M.heap))

\* the value-nodes reachable from the Head of tree object t
NodesOf(M, t) ==
    IF M.head[t] = NULL THEN {}
    ELSE Range(InOrderNodes(M.heap, M.heap[M.head[t]].left, Cardinality(DOMAIN M.heap)))

\* the reference list operations
InsertAt(s, p, v) == SubSeq(s, 1, p) \o <<v>> \o SubSeq(s, p + 1, Len(s))

RemoveAt(s, p) == SubSeq(s, 1, p) \o SubSeq(s, p + 2, Len(s))

-----------------------------------------------------------------------------
(* The state machine.  The client calls one public member function at a    *)
(* time; `last' is its note of the call just made, dropped (Resume) before *)
(* it makes an unrelated call.                                             *)

Cur == [heap |-> heap, head |-> head]

Alive(t) == head[t] # NULL

\* value-nodes allocated
NodeCount == Cardinality(DOMAIN heap) - Cardinality({t \in Trees : Alive(t)})

\* the client stays within the bound on value-nodes
NodeBound == IF derived THEN MaxSumNodes ELSE MaxNodes

RoomLeft == NodeCount < NodeBound

NoCall ==
    [op |-> "none", t |-> 0, u |-> 0, pos |-> 0, val |-> NoValue,
     A |-> <<>>, B |-> <<>>, S |-> <<>>, rt |-> FALSE, pre |-> <<>>,
     map |-> <<>>, frees |-> <<>>, func |-> <<>>, res |-> NULL,
     fault |-> FALSE]

Idle == last.op = "none"

\* the note of a call op on t (and u) at position pos with value val:
\* A and B are what t and u held before the call, pre the state before it
Rec(op, t, u, pos, val) ==
    [NoCall EXCEPT !.op = op, !.t = t, !.u = u, !.pos = pos, !.val = val,
                   !.A = Contents(Cur, t),
                   !.B = IF u \in Trees THEN Contents(Cur, u) ELSE <<>>,
                   !.pre = Cur]

Step(M, mdl, rec) ==
    LET N == Normalize(M)
    IN  /\ heap' = N.heap
        /\ head' = N.head
        /\ model' = mdl
        /\ last' = [rec EXCEPT !.map = AddressMap(M), !.frees = Frees(M)]
        /\ UNCHANGED derived

\* the call left defined behaviour: nothing is said of the program from here
\* on, the variables keep what they held when the call was made and no
\* further call is modelled
Fault(rec) ==
    /\ last' = [rec EXCEPT !.fault = TRUE]
    /\ UNCHANGED <<heap, head, model, derived>>

Init ==
    LET M0 == [heap |-> <<>>, head |-> [t \in Trees |-> NULL]]
        M1 == RBTree(M0, TreeSeq[1])
        M2 == Normalize(RBTree(M1, TreeSeq[2]))
    IN  /\ heap = M2.heap
        /\ head = M2.head
        /\ model = [t \in Trees |-> <<>>]
        /\ last = NoCall
        /\ derived = FALSE

\* the client goes on while no stored sum exceeds what MaxSumNodes values make
SumsInRange ==
    \A a \in DOMAIN heap : \E v \in Values : heap[a].sum <= MaxSumNodes * v

Resume ==
    /\ ~Idle /\ ~last.fault
    /\ derived => SumsInRange
    /\ last' = NoCall
    /\ UNCHANGED <<heap, head, model, derived>>

\* RBTree t;
Construct(t) ==
    /\ Idle /\ ~Alive(t)
    /\ Step(RBTree(Cur, t), [model EXCEPT ![t] = <<>>], Rec("RBTree", t, 0, 0, NoValue))

\* t goes out of scope
Destroy(t) ==
    /\ Idle /\ Alive(t)
    /\ Step(Destructor(Cur, t), [model EXCEPT ![t] = <<>>],
            Rec("~RBTree", t, 0, 0, NoValue))

\* RBTree t(std::move(u));
MoveConstruct(t, u) ==
    /\ Idle /\ ~Alive(t) /\ Alive(u)
    /\ Step(RBTreeMove(Cur, t, u), [model EXCEPT ![t] = model[u], ![u] = <<>>],
            Rec("move_construct", t, u, 0, NoValue))

\* t = std::move(u);
DoMoveAssign(t, u) ==
    /\ Idle /\ Alive(t) /\ Alive(u)
    /\ Step(MoveAssign(Cur, t, u), [model EXCEPT ![t] = model[u], ![u] = model[t]],
            Rec("move_assign", t, u, 0, NoValue))

\* RBTree t(u);
CopyConstruct(t, u) ==
    /\ Idle /\ ~Alive(t) /\ Alive(u)
    /\ LET R == RBTreeCopy(Cur, t, u)
       IN  IF R.ok
           THEN Step([heap |-> R.heap, head |-> R.head],
                     [model EXCEPT ![t] = model[u]],
                     Rec("copy_construct", t, u, 0, NoValue))
           ELSE Fault(Rec("copy_construct", t, u, 0, NoValue))

\* t = u;
DoCopyAssign(t, u) ==
    /\ Idle /\ Alive(t) /\ Alive(u)
    /\ LET R == CopyAssign(Cur, t, u)
       IN  IF R.ok
           THEN Step([heap |-> R.heap, head |-> R.head],
                     [model EXCEPT ![t] = IF t = u THEN <<>> ELSE model[u]],
                     Rec("copy_assign", t, u, 0, NoValue))
           ELSE Fault(Rec("copy_assign", t, u, 0, NoValue))

Swap(t, u) ==
    /\ Idle /\ Alive(t) /\ Alive(u) /\ t # u
    /\ Step(swap(Cur, t, u), [model EXCEPT ![t] = model[u], ![u] = model[t]],
            Rec("swap", t, u, 0, NoValue))

PushBack(t, v) ==
    /\ Idle /\ Alive(t) /\ RoomLeft
    /\ Step(push_back(Cur, t, v), [model EXCEPT ![t] = Append(@, v)],
            Rec("push_back", t, 0, size(Cur, t), v))

PushFront(t, v) ==
    /\ Idle /\ Alive(t) /\ RoomLeft
    /\ Step(push_front(Cur, t, v), [model EXCEPT ![t] = <<v>> \o @],
            Rec("push_front", t, 0, 0, v))

\* t.insert(t.begin() + pos, v)
Insert(t, pos, v) ==
    /\ Idle /\ Alive(t) /\ RoomLeft
    /\ pos <= size(Cur, t)
    /\ Step(insert(Cur, t, Cursor(Cur, t, pos), v),
            [model EXCEPT ![t] = InsertAt(@, pos, v)],
            Rec("insert", t, 0, pos, v))

\* t.erase(t.begin() + pos)
Erase(t, pos) ==
    /\ Idle /\ Alive(t)
    /\ pos < size(Cur, t)
    /\ Step(erase(Cur, t, Cursor(Cur, t, pos)),
            [model EXCEPT ![t] = RemoveAt(@, pos)],
            Rec("erase", t, 0, pos, NoValue))

PopBack(t) ==
    /\ Idle /\ Alive(t) /\ ~empty(Cur, t)
    /\ Step(pop_back(Cur, t), [model EXCEPT ![t] = SubSeq(@, 1, Len(@) - 1)],
            Rec("pop_back", t, 0, size(Cur, t) - 1, NoValue))

PopFront(t) ==
    /\ Idle /\ Alive(t) /\ ~empty(Cur, t)
    /\ Step(pop_front(Cur, t), [model EXCEPT ![t] = Tail(@)],
            Rec("pop_front", t, 0, 0, NoValue))

Clear(t) ==
    /\ Idle /\ Alive(t)
    /\ Step(clear(Cur, t), [model EXCEPT ![t] = <<>>], Rec("clear", t, 0, 0, NoValue))

\* t.merge(u); made right after RBTree u = t.split(..) it completes a round
\* trip, and the note keeps the sequence S that t held before the split
DoMerge(t, u) ==
    LET follows == last.op = "split" /\ last.t = t /\ last.u = u
    IN  /\ Idle \/ follows
        /\ Alive(t) /\ Alive(u) /\ t # u
        /\ Step(merge(Cur, t, u),
                [model EXCEPT ![t] = model[t] \o model[u], ![u] = <<>>],
                [Rec("merge", t, u, 0, NoValue) EXCEPT
                    !.S = IF follows THEN last.S ELSE <<>>, !.rt = follows])

\* t.insert_merge(u, v); made right after RBTree u = t.erase_and_split(..)
\* with v the erased value it completes a round trip
InsertMerge(t, u, v) ==
    LET follows == /\ last.op = "erase_and_split" /\ last.t = t /\ last.u = u
                   /\ last.val = v
    IN  /\ Idle \/ follows
        /\ Alive(t) /\ Alive(u) /\ t # u /\ RoomLeft
        /\ Step(insert_merge(Cur, t, u, v),
                [model EXCEPT ![t] = model[t] \o <<v>> \o model[u], ![u] = <<>>],
                [Rec("insert_merge", t, u, 0, v) EXCEPT
                    !.S = IF follows THEN last.S ELSE <<>>, !.rt = follows])

\* RBTree u = t.split(t.begin() + pos);
Split(t, pos, u) ==
    /\ Idle /\ Alive(t) /\ ~Alive(u)
    /\ pos <= size(Cur, t)
    /\ Step(split(Cur, t, Cursor(Cur, t, pos), u),
            [model EXCEPT ![t] = SubSeq(model[t], 1, pos),
                          ![u] = SubSeq(model[t], pos + 1, Len(model[t]))],
            [Rec("split", t, u, pos, NoValue) EXCEPT !.S = Contents(Cur, t)])

\* RBTree u = t.erase_and_split(t.begin() + pos);
EraseAndSplit(t, pos, u) ==
    /\ Idle /\ Alive(t) /\ ~Alive(u)
    /\ pos < size(Cur, t)
    /\ LET it == Cursor(Cur, t, pos)
       IN  Step(erase_and_split(Cur, t, it, u),
                [model EXCEPT ![t] = SubSeq(model[t], 1, pos),
                              ![u] = SubSeq(model[t], pos + 2, Len(model[t]))],
                [Rec("erase_and_split", t, u, pos, heap[it].value) EXCEPT
                    !.S = Contents(Cur, t)])

\* it = t.partition_bound(func): the tree is only read
DoPartitionBound(t, func) ==
    /\ Idle /\ Alive(t)
    /\ Step(Cur, model,
            [Rec("partition_bound", t, 0, 0, NoValue) EXCEPT
                !.func = func, !.res = partition_bound(Cur, t, func)])

\* it = t.iter_partition_bound(func), func reading the value at its iterator
DoIterPartitionBound(t, func) ==
    /\ Idle /\ Alive(t)
    /\ Step(Cur, model,
            [Rec("iter_partition_bound", t, 0, 0, NoValue) EXCEPT
                !.func = func, !.res = iter_partition_bound(Cur, t, func)])

Next ==
    \/ Resume
    \/ \E t \in Trees : Construct(t)
    \/ \E t \in Trees : Destroy(t)
    \/ \E t, u \in Trees : MoveConstruct(t, u)
    \/ \E t, u \in Trees : DoMoveAssign(t, u)
    \/ \E t, u \in Trees : CopyConstruct(t, u)
    \/ \E t, u \in Trees : DoCopyAssign(t, u)
    \/ \E t, u \in Trees : Swap(t, u)
    \/ \E t \in Trees, v \in Values : PushBack(t, v)
    \/ \E t \in Trees, v \in Values : PushFront(t, v)
    \/ \E t \in Trees, pos \in 0..MaxNodes, v \in Values : Insert(t, pos, v)
    \/ \E t \in Trees, pos \in 0..MaxNodes : Erase(t, pos)
    \/ \E t \in Trees : PopBack(t)
    \/ \E t \in Trees : PopFront(t)
    \/ \E t \in Trees : Clear(t)
    \/ \E t, u \in Trees : DoMerge(t, u)
    \/ \E t, u \in Trees, v \in Values : InsertMerge(t, u, v)
    \/ \E t, u \in Trees, pos \in 0..MaxNodes : Split(t, pos, u)
    \/ \E t, u \in Trees, pos \in 0..MaxNodes : EraseAndSplit(t, pos, u)
    \/ \E t \in Trees, func \in Preds : DoPartitionBound(t, func)
    \/ \E t \in Trees, func \in Preds : DoIterPartitionBound(t, func)

Spec == Init /\ [][Next]_vars

\* the same program with trees of the derived structure
InitSum ==
    /\ heap = Normalize(RBTree(RBTree([heap |-> <<>>, head |-> [t \in Trees |-> NULL]],
                                       TreeSeq[1]), TreeSeq[2])).heap
    /\ head = [t \in Trees |-> t]
    /\ model = [t \in Trees |-> <<>>]
    /\ last = NoCall
    /\ derived = TRUE

SpecSum == InitSum /\ [][Next]_vars

-----------------------------------------------------------------------------
(* Properties *)

\* black_height with an absent child counting as 0
H(nd) == IF nd = NULL THEN 0 ELSE heap[nd].black_height

IsRed(nd) == nd # NULL /\ ~heap[nd].black

LiveTrees == {t \in Trees : Alive(t)}

Root(t) == heap[head[t]].left

\* the node of in-order rank r of tree t (its Head for r = size)
RankNode(t, r) ==
    LET nodes == InOrderNodes(heap, Root(t), Cardinality(DOMAIN heap))
    IN  IF r = Len(nodes) THEN head[t] ELSE nodes[r + 1]

\* in the state before the call: the node the cursor begin() + pos names
PreCursor == Cursor(last.pre, last.t, last.pos)

\* C1: after any sequence of public operations the traversal of every tree
\* from begin() to end() equals the reference list on which the same
\* positional operations were applied.
C1_SequenceFidelity ==
    \A t \in LiveTrees : Contents(Cur, t) = model[t]

\* an insert in the middle of a tree holding both values
C1_Witness ==
    /\ last.op = "insert"
    /\ last.pos > 0 /\ last.pos < Len(last.A)
    /\ Len(last.A) >= 3
    /\ Range(last.A) = Values
    /\ Contents(Cur, last.t) = InsertAt(last.A, last.pos, last.val)

\* C2: between public operations no red node of any tree has a red child.
C2_NoRedRed ==
    \A t \in LiveTrees : \A n \in NodesOf(Cur, t) :
        IsRed(n) => ~IsRed(heap[n].left) /\ ~IsRed(heap[n].right)

\* a merge of two non-empty trees left a tree with a red node above black children
C2_Witness ==
    /\ last.op \in {"merge", "insert_merge"}
    /\ last.A # <<>> /\ last.B # <<>>
    /\ \E n \in NodesOf(Cur, last.t) :
          /\ IsRed(n)
          /\ heap[n].left # NULL /\ heap[n].right # NULL

\* C3: between public operations, for every value-node n of every tree, the
\* stored black_height(n) minus (1 if n is black) equals the stored
\* black_height of both children, an absent child counting as 0.
C3_BlackHeight ==
    \A t \in LiveTrees : \A n \in NodesOf(Cur, t) :
        LET z == heap[n].black_height - (IF heap[n].black THEN 1 ELSE 0)
        IN  H(heap[n].left) = z /\ H(heap[n].right) = z

\* a split strictly inside a tree left two non-empty trees, one of height 2
C3_Witness ==
    /\ last.op = "split"
    /\ last.pos > 0 /\ last.pos < Len(last.A)
    /\ \E t \in {last.t, last.u} : H(Root(t)) = 2

\* C4: between public operations every value-node n of every tree has
\* size(n) = size(left) + size(right) + 1 with size(absent) = 0.
C4_Size ==
    \A t \in LiveTrees : \A n \in NodesOf(Cur, t) :
        heap[n].size = Size_(heap, heap[n].left) + Size_(heap, heap[n].right) + 1

\* an erase whose removed node was a black leaf with a red sibling: the
\* deletion repair went through the red-sibling rotation
C4_Witness ==
    /\ last.op \in {"erase", "pop_front", "pop_back"}
    /\ LET h == last.pre.heap
           a == PreCursor
           p == h[a].parent
           s == IF h[p].left = a THEN h[p].right ELSE h[p].left
       IN  /\ h[a].black /\ h[a].left = NULL /\ h[a].right = NULL
           /\ p # last.pre.head[last.t]
           /\ s # NULL /\ ~h[s].black

\* C5: between public operations parent links are the exact inverse of child
\* links: c.parent = p iff p.left = c or p.right = c, the root's parent is
\* the tree's own Head, and a Head has no parent and no right child.
C5_ParentLinks ==
    \A t \in LiveTrees :
        /\ heap[head[t]].parent = NULL
        /\ heap[head[t]].right = NULL
        /\ \A c \in NodesOf(Cur, t) : \A p \in DOMAIN heap :
              (heap[c].parent = p) <=> (heap[p].left = c \/ heap[p].right = c)
        /\ Root(t) # NULL => heap[Root(t)].parent = head[t]
        /\ \A c \in NodesOf(Cur, t) : heap[c].parent \in DOMAIN heap

\* an erase_and_split strictly inside a tree: both trees got a new root
C5_Witness ==
    /\ last.op = "erase_and_split"
    /\ last.pos > 0 /\ last.pos + 1 < Len(last.A)
    /\ Root(last.t) # NULL /\ Root(last.u) # NULL
    /\ heap[Root(last.u)].parent = head[last.u]

\* C6 as stated: every move, into a destination in any state, leaves the
\* source tree empty and gives the destination the sequence the source held.
C6_MoveEmptiesSource ==
    (last.op \in {"move_construct", "move_assign"} /\ last.t # last.u) =>
        /\ size(Cur, last.u) = 0
        /\ begin(Cur, last.u) = end(Cur, last.u)
        /\ Contents(Cur, last.t) = last.B

\* C6 (amended): a move gives the destination exactly the sequence the source
\* held; move construction leaves the source empty; move assignment leaves
\* the source holding the sequence the destination held, so the source is
\* empty exactly when the destination was, and self-assignment changes nothing.
C6_MoveTransfers ==
    /\ last.op = "move_construct" =>
          /\ Contents(Cur, last.t) = last.B
          /\ size(Cur, last.u) = 0
          /\ begin(Cur, last.u) = end(Cur, last.u)
    /\ last.op = "move_assign" =>
          /\ Contents(Cur, last.t) = last.B
          /\ Contents(Cur, last.u) = last.A
          /\ size(Cur, last.u) = Len(last.A)
          /\ (begin(Cur, last.u) = end(Cur, last.u)) <=> (last.A = <<>>)

\* a move assignment between two trees holding different non-empty sequences
C6_Witness ==
    /\ last.op = "move_assign" /\ last.t # last.u
    /\ last.A # <<>> /\ last.B # <<>> /\ last.A # last.B
    /\ Contents(Cur, last.t) = last.B
    /\ Contents(Cur, last.u) = last.A

\* C7: for two distinct trees holding a and b, A.merge(B) leaves A holding
\* a ++ b element for element and leaves B empty.
C7_MergeConcatenates ==
    last.op = "merge" =>
        /\ Contents(Cur, last.t) = last.A \o last.B
        /\ size(Cur, last.t) = Len(last.A) + Len(last.B)
        /\ size(Cur, last.u) = 0
        /\ begin(Cur, last.u) = end(Cur, last.u)

\* a merge of two trees of two or more elements whose order matters
C7_Witness ==
    /\ last.op = "merge"
    /\ Len(last.A) >= 2 /\ Len(last.B) >= 2
    /\ last.A \o last.B # last.B \o last.A
    /\ Contents(Cur, last.t) = last.A \o last.B

\* C8: for a tree holding S and a cursor at rank p, 0 <= p <= |S|,
\* split(cursor) returns a new tree holding S[p..] and leaves the original
\* holding S[0..p); at end() the returned tree is empty and the original
\* tree is unchanged.
C8_SplitParts ==
    last.op = "split" =>
        /\ Contents(Cur, last.u) = SubSeq(last.A, last.pos + 1, Len(last.A))
        /\ Contents(Cur, last.t) = SubSeq(last.A, 1, last.pos)
        /\ last.pos = Len(last.A) =>
              /\ size(Cur, last.u) = 0
              /\ begin(Cur, last.u) = end(Cur, last.u)
              /\ \A a \in DOMAIN last.pre.heap : heap[a] = last.pre.heap[a]

\* a split strictly inside a tree of four or more elements holding both values
C8_Witness ==
    /\ last.op = "split"
    /\ Len(last.A) >= 4
    /\ last.pos > 1 /\ last.pos < Len(last.A) - 1
    /\ Range(last.A) = Values
    /\ Contents(Cur, last.u)[1] = last.A[last.pos + 1]

\* C9: R = T.split(p) followed by T.merge(R), and R = T.erase_and_split(p)
\* followed by T.insert_merge(R, v) with v the erased value, leave T holding
\* the sequence S it held before, element for element, and R empty.
C9_RoundTrip ==
    last.rt =>
        /\ Contents(Cur, last.t) = last.S
        /\ size(Cur, last.u) = 0
        /\ begin(Cur, last.u) = end(Cur, last.u)

\* a round trip through a split strictly inside a tree of both values
C9_Witness ==
    /\ last.rt
    /\ last.op = "merge"
    /\ Len(last.A) >= 2 /\ Len(last.B) >= 2
    /\ Range(last.S) = Values
    /\ last.S # last.B \o last.A
    /\ Contents(Cur, last.t) = last.S

\* C10: in every reachable tree, order(select(root, r)) = r for every rank
\* r < size(), order(Head) = size(), and for every cursor c and every k with
\* 0 <= order(c) + k <= size(), advance(c, k) is the node of rank
\* order(c) + k, (c + k) - c = k, and c1 < c2 exactly when c1 comes first.
C10_OrderStatistics ==
    \A t \in LiveTrees :
        LET n == size(Cur, t)
            nodes == InOrderNodes(heap, Root(t), Cardinality(DOMAIN heap))
                        \o <<head[t]>>
        IN  /\ Len(nodes) = n + 1
            /\ \A r \in 0..n : nodes[r + 1] = RankNode(t, r)
            /\ \A r \in 0..(n - 1) :
                  /\ Select_(heap, Root(t), r) = nodes[r + 1]
                  /\ Order_(heap, Select_(heap, Root(t), r)) = r
            /\ Order_(heap, head[t]) = n
            /\ \A r \in 0..n : \A k \in (0 - r)..(n - r) :
                  /\ Order_(heap, nodes[r + 1]) = r
                  /\ Advance_(heap, nodes[r + 1], k) = nodes[r + k + 1]
                  /\ Difference_(heap, Advance_(heap, nodes[r + 1], k),
                                 nodes[r + 1]) = k
            /\ \A r1, r2 \in 0..n :
                  Less_(heap, nodes[r1 + 1], nodes[r2 + 1]) <=> (r1 < r2)

\* after an erase a tree of four or more elements: end() - size() is begin()
\* and begin() + size() is end()
C10_Witness ==
    /\ last.op = "erase"
    /\ size(Cur, last.t) >= 4
    /\ Advance_(heap, head[last.t], 0 - size(Cur, last.t)) = begin(Cur, last.t)
    /\ Advance_(heap, begin(Cur, last.t), size(Cur, last.t)) = head[last.t]
    /\ Difference_(heap, end(Cur, last.t), begin(Cur, last.t)) = size(Cur, last.t)

\* C11: when erase(it) names a node with two children, the node unlinked and
\* freed is its in-order predecessor; the named node stays in the tree and
\* holds the predecessor's former value at the rank the predecessor had.
\* Otherwise the named node itself is unlinked and freed and no other
\* node's value changes.
C11_EraseUnlinksPredecessor ==
    last.op = "erase" =>
        LET h == last.pre.heap
            a == PreCursor
        IN  IF h[a].left # NULL /\ h[a].right # NULL
            THEN /\ last.frees = (Last_(h, h[a].left) :> 1)
                 /\ last.map[a] \in NodesOf(Cur, last.t)
                 /\ heap[last.map[a]].value = h[Last_(h, h[a].left)].value
                 /\ RankNode(last.t, last.pos - 1) = last.map[a]
            ELSE /\ last.frees = (a :> 1)
                 /\ \A n \in NodesOf(last.pre, last.t) \ {a} :
                       /\ last.map[n] \in NodesOf(Cur, last.t)
                       /\ heap[last.map[n]].value = h[n].value

\* an erase of a node with two children whose predecessor held another value
C11_Witness ==
    /\ last.op = "erase"
    /\ LET h == last.pre.heap
           a == PreCursor
       IN  /\ h[a].left # NULL /\ h[a].right # NULL
           /\ h[Last_(h, h[a].left)].value # h[a].value
           /\ last.map[Last_(h, h[a].left)] = Dangling
           /\ heap[last.map[a]].value = h[Last_(h, h[a].left)].value

\* C12: a derived structure that stores in Pull_ an aggregate computed from
\* the node's value and its children's aggregates has a correct aggregate on
\* every node of every tree after every public mutation.
C12_AggregateCorrect ==
    \A t \in LiveTrees : \A n \in NodesOf(Cur, t) :
        heap[n].sum = heap[n].value + Sum_(heap, heap[n].left)
                                    + Sum_(heap, heap[n].right)

\* the shape of a subtree with what each node stores
RECURSIVE Shape(_, _)
Shape(h, nd) ==
    IF nd = NULL THEN <<>>
    ELSE [size |-> h[nd].size, black |-> h[nd].black,
          black_height |-> h[nd].black_height, value |-> h[nd].value,
          left |-> Shape(h, h[nd].left), right |-> Shape(h, h[nd].right)]

\* in the state before the call: the root of tree x
PreRoot(x) == last.pre.heap[last.pre.head[x]].left

\* tree x is as it was before the call: the same nodes in the same shape
SameTree(x) ==
    /\ Shape(heap, Root(x)) = Shape(last.pre.heap, PreRoot(x))
    /\ NodesOf(Cur, x) = {last.map[n] : n \in NodesOf(last.pre, x)}
    /\ last.map[last.pre.head[x]] = head[x]

\* C13: copy construction and copy assignment from another tree give the
\* destination the sequence of the source in the same shape with the same
\* size, colour and black_height on each node, sharing no node; the source
\* is unchanged, and a later mutation of one tree leaves every other tree's
\* sequence and structure unchanged.
C13_CopyIndependent ==
    /\ (last.op \in {"copy_construct", "copy_assign"} /\ last.t # last.u) =>
          /\ ~last.fault
          /\ Contents(Cur, last.t) = last.B
          /\ Shape(heap, Root(last.t)) = Shape(last.pre.heap, PreRoot(last.u))
          /\ NodesOf(Cur, last.t) \cap NodesOf(Cur, last.u) = {}
          /\ head[last.t] # head[last.u]
          /\ Contents(Cur, last.u) = last.B
          /\ SameTree(last.u)
    /\ last.op \in {"push_back", "push_front", "insert", "erase", "pop_back",
                    "pop_front", "clear", "~RBTree"} =>
          \A x \in LiveTrees \ {last.t} :
              /\ Contents(Cur, x) = Contents(last.pre, x)
              /\ SameTree(x)

\* C14: in every reachable state every value-node created and not yet freed
\* is reachable from the Head of exactly one live tree, no node reachable
\* from a Head points to freed storage, and no address is freed twice.
C14_ExclusiveOwnership ==
    /\ \A a \in DOMAIN heap \ {head[t] : t \in LiveTrees} :
          Cardinality({t \in LiveTrees : a \in NodesOf(Cur, t)}) = 1
    /\ \A t \in LiveTrees : \A n \in NodesOf(Cur, t) \cup {head[t]} :
          /\ heap[n].left \in DOMAIN heap \cup {NULL}
          /\ heap[n].right \in DOMAIN heap \cup {NULL}
          /\ heap[n].parent \in DOMAIN heap \cup {NULL}
    /\ \A t, x \in LiveTrees : t # x => head[t] # head[x]
    /\ \A a \in DOMAIN last.frees :
          last.frees[a] = 1 /\ a \in DOMAIN last.pre.heap

\* an erase_and_split strictly inside a tree: one node freed, the others
\* shared out between the two trees
C14_Witness ==
    /\ last.op = "erase_and_split"
    /\ last.pos > 0 /\ last.pos + 1 < Len(last.A)
    /\ Cardinality(DOMAIN last.frees) = 1
    /\ NodesOf(Cur, last.t) # {} /\ NodesOf(Cur, last.u) # {}
    /\ NodesOf(Cur, last.t) \cup NodesOf(Cur, last.u)
          = {last.map[n] : n \in NodesOf(last.pre, last.t)} \ {Dangling}

\* C15: between public operations the Head's left child of every tree is
\* absent exactly when the tree is empty, and otherwise a black node.
C15_BlackRoot ==
    \A t \in LiveTrees :
        /\ (Root(t) = NULL) <=> (Contents(Cur, t) = <<>>)
        /\ (Root(t) = NULL) <=> (begin(Cur, t) = end(Cur, t))
        /\ Root(t) # NULL => heap[Root(t)].black

\* an erase of a black leaf under a black root with a black sibling that has
\* no red child: the deficiency went up to the root
C15_Witness ==
    /\ last.op = "erase"
    /\ LET h == last.pre.heap
           a == PreCursor
           p == h[a].parent
           s == IF h[p].left = a THEN h[p].right ELSE h[p].left
       IN  /\ h[a].black /\ h[a].left = NULL /\ h[a].right = NULL
           /\ h[p].parent = last.pre.head[last.t] /\ h[p].black
           /\ s # NULL /\ h[s].black /\ h[s].left = NULL /\ h[s].right = NULL
    /\ Root(last.t) # NULL /\ heap[Root(last.t)].black

\* C16: erase_and_split at rank p of a tree holding S frees exactly the node
\* at the cursor, returns a new tree holding S[p+1..] and leaves the tree
\* holding S[0..p); the only storage created is the Head of the returned
\* tree, and every other node of S is still a node of one of the two trees.
C16_EraseAndSplit ==
    last.op = "erase_and_split" =>
        /\ Contents(Cur, last.t) = SubSeq(last.A, 1, last.pos)
        /\ Contents(Cur, last.u) = SubSeq(last.A, last.pos + 2, Len(last.A))
        /\ DOMAIN last.frees = {PreCursor}
        /\ last.frees[PreCursor] = 1
        /\ \A a \in DOMAIN last.map \ DOMAIN last.pre.heap : last.map[a] = last.u
        /\ Cardinality(DOMAIN last.map \ DOMAIN last.pre.heap) = 1
        /\ {last.map[n] : n \in NodesOf(last.pre, last.t) \ {PreCursor}}
              = NodesOf(Cur, last.t) \cup NodesOf(Cur, last.u)
        /\ \A n \in NodesOf(last.pre, last.t) \ {PreCursor} :
              heap[last.map[n]].value = last.pre.heap[n].value

\* the cursor was strictly inside a tree of at least four elements whose two
\* sides differ in length
C16_Witness ==
    /\ last.op = "erase_and_split"
    /\ Len(last.A) >= 4
    /\ last.pos > 0 /\ last.pos + 1 < Len(last.A)
    /\ Len(Contents(Cur, last.t)) # Len(Contents(Cur, last.u))
    /\ last.frees = (PreCursor :> 1)

\* C17: A.insert_merge(B, v) on distinct trees holding a and b leaves A
\* holding a ++ <<v>> ++ b with size |a| + |b| + 1 and leaves B empty,
\* whichever of a and b is empty.
C17_InsertMerge ==
    last.op = "insert_merge" =>
        /\ last.t # last.u
        /\ Contents(Cur, last.t) = last.A \o <<last.val>> \o last.B
        /\ size(Cur, last.t) = Len(last.A) + Len(last.B) + 1
        /\ Contents(Cur, last.u) = <<>>
        /\ empty(Cur, last.u) /\ size(Cur, last.u) = 0

\* a new element was joined in front of a donated tree of several elements by
\* an empty tree
C17_Witness ==
    /\ last.op = "insert_merge"
    /\ last.A = <<>> /\ Len(last.B) >= 2
    /\ size(Cur, last.t) = Len(last.B) + 1
    /\ empty(Cur, last.u)

\* both trees were empty, or only the donated one was
C17_WitnessEmpty ==
    /\ last.op = "insert_merge"
    /\ last.B = <<>>
    /\ Contents(Cur, last.t) = last.A \o <<last.val>>

\* func is true on a prefix of the positions of S and false on the rest
Monotonic(S, func) ==
    \A i, j \in 1..Len(S) : i < j /\ func[S[j]] => func[S[i]]

\* the number of leading positions of S on which func is true
TruePrefix(S, func) == Cardinality({i \in 1..Len(S) : func[S[i]]})

\* C18: for a predicate that is monotonic over the sequence, partition_bound
\* returns the cursor at the first position whose value makes it false, and
\* end() when it is true everywhere or the tree is empty; the iterator form
\* returns the same position; neither changes the tree.
C18_PartitionBound ==
    last.op \in {"partition_bound", "iter_partition_bound"}
      /\ Monotonic(last.A, last.func) =>
        /\ last.res = Cursor(Cur, last.t, TruePrefix(last.A, last.func))
        /\ (\A i \in 1..Len(last.A) : last.func[last.A[i]])
              => last.res = end(Cur, last.t)
        /\ last.res # end(Cur, last.t) =>
              /\ ~last.func[heap[last.res].value]
              /\ Order_(heap, last.res) = TruePrefix(last.A, last.func)
        /\ last.res = partition_bound(Cur, last.t, last.func)
        /\ last.res = iter_partition_bound(Cur, last.t, last.func)
        /\ Cur = last.pre

\* the boundary lies strictly inside a tree of at least four elements, found
\* by the iterator form
C18_Witness ==
    /\ last.op = "iter_partition_bound"
    /\ Monotonic(last.A, last.func)
    /\ Len(last.A) >= 4
    /\ TruePrefix(last.A, last.func) \in 2..(Len(last.A) - 1)
    /\ last.res = Cursor(Cur, last.t, TruePrefix(last.A, last.func))

\* C19: clear() on a tree of any shape ends having freed every value-node of
\* the tree exactly once and nothing else (never the Head), and leaves the
\* tree empty (Head's left absent, size() = 0) and able to take an insert.
C19_ClearFreesAll ==
    last.op = "clear" =>
        /\ DOMAIN last.frees = NodesOf(last.pre, last.t)
        /\ \A a \in DOMAIN last.frees : last.frees[a] = 1
        /\ last.pre.head[last.t] \notin DOMAIN last.frees
        /\ Alive(last.t) /\ head[last.t] \in Allocated(heap)
        /\ heap[head[last.t]].left = NULL /\ heap[head[last.t]].right = NULL
        /\ size(Cur, last.t) = 0 /\ empty(Cur, last.t)
        /\ Contents(Cur, last.t) = <<>>
        /\ \A v \in Values :
              Contents(push_back(Cur, last.t, v), last.t) = <<v>>

\* a tree of at least four nodes, of height three, was cleared
C19_Witness ==
    /\ last.op = "clear"
    /\ Len(last.A) >= 4
    /\ Cardinality(DOMAIN last.frees) = Len(last.A)
    /\ empty(Cur, last.t)

\* what the branches of Remove_ take for granted about the node x they unlink
BranchAssumptions(h, x) ==
    LET children == {h[x].left, h[x].right} \ {NULL}
    IN  /\ ~h[x].black => children = {}
        /\ h[x].black /\ Cardinality(children) = 1 =>
              \A c \in children :
                  ~h[c].black /\ h[c].left = NULL /\ h[c].right = NULL
        /\ Cardinality(children) <= 1

\* C20: in every reachable tree, the node Remove_ would unlink for any
\* element (the element's node, or its predecessor after the swap) is
\* childless if red, and if black with one child that child is a red leaf;
\* and a removal drops exactly that node and leaves equal black-heights on the
\* two sides of every node.
C20_RemoveBranches ==
    /\ \A t \in LiveTrees : \A a \in NodesOf(Cur, t) :
          BranchAssumptions(heap, RemoveTarget_(heap, a))
    /\ last.op \in {"erase", "pop_back", "pop_front"} =>
          /\ last.frees = (RemoveTarget_(last.pre.heap, PreCursor) :> 1)
          /\ NodesOf(Cur, last.t)
                = {last.map[n] : n \in NodesOf(last.pre, last.t)
                                       \ {RemoveTarget_(last.pre.heap, PreCursor)}}
          /\ \A n \in NodesOf(Cur, last.t) :
                /\ H(heap[n].left) = H(heap[n].right)
                /\ heap[n].black_height
                      = H(heap[n].left) + (IF heap[n].black THEN 1 ELSE 0)

\* an erase at a node with two children whose predecessor was black with a
\* single child: the child was repainted and took its place
C20_Witness ==
    /\ last.op = "erase"
    /\ LET h == last.pre.heap
           x == RemoveTarget_(h, PreCursor)
       IN  /\ x # PreCursor
           /\ h[x].black /\ h[x].left # NULL
           /\ ~h[h[x].left].black
           /\ heap[last.map[h[x].left]].black
           /\ heap[last.map[h[x].left]].parent = last.map[h[x].parent]
    /\ Cardinality(NodesOf(Cur, last.t)) = Len(last.A) - 1

\* an erase that unlinked a red node, which had no children
C20_WitnessRed ==
    /\ last.op = "erase"
    /\ ~last.pre.heap[RemoveTarget_(last.pre.heap, PreCursor)].black
    /\ Len(last.A) >= 4

\* C21: copy-assigning a tree to itself leaves it holding the same sequence,
\* with the same size, as before the assignment.
C21_SelfAssignKeeps ==
    (last.op = "copy_assign" /\ last.t = last.u) =>
        /\ ~last.fault
        /\ Contents(Cur, last.t) = last.A
        /\ size(Cur, last.t) = Len(last.A)

\* C22: the Head of a tree (its end() cursor) is the same node before and
\* after every merge, insert_merge, split and erase_and_split on that tree,
\* whichever operands are empty.
C22_HeadStable ==
    last.op \in {"merge", "insert_merge", "split", "erase_and_split"} =>
        /\ head[last.t] = last.map[last.pre.head[last.t]]
        /\ end(Cur, last.t) = last.map[end(last.pre, last.t)]

\* the trees that were alive before the call
PreLive == {x \in Trees : last.pre.head[x] # NULL}

\* the value-nodes that existed before the call
PreNodes == UNION {NodesOf(last.pre, x) : x \in PreLive}

\* C23: push_front, push_back, insert, merge, insert_merge and split free no
\* node; every node and Head that existed before the call is still allocated,
\* every pre-existing value-node holds the value it held, and two nodes that
\* were in one tree and are in one tree afterwards are in the same order.
C23_CursorsStayValid ==
    last.op \in {"push_front", "push_back", "insert", "merge", "insert_merge",
                 "split"} =>
        /\ DOMAIN last.frees = {}
        /\ \A a \in DOMAIN last.pre.heap : last.map[a] \in Allocated(heap)
        /\ \A n \in PreNodes :
              /\ last.map[n] \in UNION {NodesOf(Cur, x) : x \in LiveTrees}
              /\ heap[last.map[n]].value = last.pre.heap[n].value
        /\ \A x \in PreLive : \A n1, n2 \in NodesOf(last.pre, x) :
              \A y \in LiveTrees :
                  (/\ last.map[n1] \in NodesOf(Cur, y)
                   /\ last.map[n2] \in NodesOf(Cur, y)
                   /\ Order_(last.pre.heap, n1) < Order_(last.pre.heap, n2))
                  => Order_(heap, last.map[n1]) < Order_(heap, last.map[n2])

\* a merge of two trees of at least two elements each whose pivot came off
\* the back of the receiving tree and was linked in again
C23_Witness ==
    /\ last.op = "merge"
    /\ Len(last.A) >= 2 /\ Len(last.B) >= 2 /\ Len(last.A) <= Len(last.B)
    /\ DOMAIN last.frees = {}
    /\ {last.map[n] : n \in PreNodes} = NodesOf(Cur, last.t)
    /\ Cardinality(NodesOf(Cur, last.t)) = Len(last.A) + Len(last.B)

=============================================================================
